---- MODULE Spec2Model ----
(***************************************************************************)
(* Model of the access-key subsystem of wen-xd/config-repo:                *)
(*   src/accesskey/accesskey.go   credential store operations              *)
(*   src/accesskey/signature.go   signer, policy evaluation, request gate  *)
(*   src/es/estest.go:482-529    the definitions of the tables             *)
(*                                                                         *)
(* Strings are TLA+ strings (TLC evaluates \o, Len and SubSeq on them).    *)
(* SHA-256 and HMAC-SHA256 are modelled as collision-free encodings of     *)
(* their arguments.                                                        *)
(***************************************************************************)
EXTENDS Integers, Sequences, FiniteSets, TLC

VARIABLES
    input,              \* arguments drawn for a direct call of one exported function
    output,             \* what that call returned
    DB,                 \* accesskey.go:48, the process-wide handle: "nil" or "open"
    access_keys,        \* table access_keys: access_key |-> row
    roles,              \* table roles: id |-> row
    access_key_roles,   \* table access_key_roles: <<access_key_id, role_id>> |-> number of rows
                        \* (0 or 1: the pair is the table's primary key, estest.go:526)
    revoked,            \* the pairs whose row was deleted from access_key_roles and has
                        \* not been inserted again
    pc,                 \* where the middleware's handler stands for the request in flight
    inbound,            \* the request as it arrived
    r,                  \* the handler's *http.Request
    locals,             \* the handler's local values read from the store
    response,           \* what the handler wrote to w, and whether it called f.ServeHTTP
    calls,              \* the checks the handler has run for this request, with their results
    inactiveSinceStart  \* the credential the request names was not active when the
                        \* handler started and has not been active since

callVars  == <<input, output>>
storeVars == <<DB, access_keys, roles, access_key_roles, revoked>>
gateVars  == <<pc, inbound, r, locals, response, calls, inactiveSinceStart>>
vars      == <<callVars, storeVars, gateVars>>

(***************************************************************************)
(* Bounds                                                                  *)
(***************************************************************************)
MaxRules == 3       \* longest permission list handed to hasPermission

(***************************************************************************)
(* strings.ToUpper / ToLower / HasPrefix / HasSuffix / TrimSuffix / Join   *)
(***************************************************************************)
LowerLetters == "abcdefghijklmnopqrstuvwxyz"
UpperLetters == "ABCDEFGHIJKLMNOPQRSTUVWXYZ"

CharAt(s, i) == SubSeq(s, i, i)

MapChar(c, from, to) ==
    IF \E i \in 1..Len(from) : CharAt(from, i) = c
    THEN CharAt(to, CHOOSE i \in 1..Len(from) : CharAt(from, i) = c)
    ELSE c

RECURSIVE MapString(_, _, _)
MapString(s, from, to) ==
    IF Len(s) = 0 THEN ""
    ELSE MapChar(CharAt(s, 1), from, to) \o MapString(SubSeq(s, 2, Len(s)), from, to)

ToUpper(s) == MapString(s, LowerLetters, UpperLetters)
ToLower(s) == MapString(s, UpperLetters, LowerLetters)

HasPrefix(s, prefix) ==
    Len(s) >= Len(prefix) /\ SubSeq(s, 1, Len(prefix)) = prefix

HasSuffix(s, suffix) ==
    Len(s) >= Len(suffix) /\ SubSeq(s, Len(s) - Len(suffix) + 1, Len(s)) = suffix

TrimSuffix(s, suffix) ==
    IF HasSuffix(s, suffix) THEN SubSeq(s, 1, Len(s) - Len(suffix)) ELSE s

RECURSIVE Join(_, _)
Join(elems, sep) ==
    IF Len(elems) = 0 THEN ""
    ELSE IF Len(elems) = 1 THEN elems[1]
    ELSE elems[1] \o sep \o Join(Tail(elems), sep)

(***************************************************************************)
(* signature.go: matchPathPattern                                          *)
(***************************************************************************)
matchPathPattern(pattern, path) ==
    IF HasSuffix(pattern, "/*")
    THEN HasPrefix(path, TrimSuffix(pattern, "/*"))
    ELSE pattern = path

(***************************************************************************)
(* signature.go: hasPermission.  A rule is a record                        *)
(* [Resources : Seq(STRING), Actions : Seq(STRING), Effect : STRING].      *)
(***************************************************************************)
methodAllowed(actions, method) ==
    \E i \in 1..Len(actions) :
        ToUpper(actions[i]) = ToUpper(method) \/ ToUpper(actions[i]) = "*"

pathAllowed(resources, path) ==
    \E i \in 1..Len(resources) : matchPathPattern(resources[i], path)

RECURSIVE hasPermissionLoop(_, _, _, _, _, _)
hasPermissionLoop(perms, method, path, i, foundMatch, finalAllow) ==
    IF i > Len(perms) THEN foundMatch /\ finalAllow
    ELSE LET perm   == perms[i]
             effect == ToLower(perm.Effect)
         IN  IF effect # "allow" /\ effect # "deny"
             THEN hasPermissionLoop(perms, method, path, i + 1, foundMatch, finalAllow)
             ELSE IF ~methodAllowed(perm.Actions, method)
             THEN hasPermissionLoop(perms, method, path, i + 1, foundMatch, finalAllow)
             ELSE IF pathAllowed(perm.Resources, path)
             THEN IF effect = "deny"
                  THEN FALSE
                  ELSE hasPermissionLoop(perms, method, path, i + 1, TRUE, TRUE)
             ELSE hasPermissionLoop(perms, method, path, i + 1, foundMatch, finalAllow)

\* the loop with the deny short-circuit lost: the last matching rule decides
RECURSIVE hasPermissionLastWins(_, _, _, _, _, _)
hasPermissionLastWins(perms, method, path, i, foundMatch, finalAllow) ==
    IF i > Len(perms) THEN foundMatch /\ finalAllow
    ELSE LET perm   == perms[i]
             effect == ToLower(perm.Effect)
         IN  IF effect # "allow" /\ effect # "deny"
             THEN hasPermissionLastWins(perms, method, path, i + 1, foundMatch, finalAllow)
             ELSE IF ~methodAllowed(perm.Actions, method)
             THEN hasPermissionLastWins(perms, method, path, i + 1, foundMatch, finalAllow)
             ELSE IF pathAllowed(perm.Resources, path)
             THEN hasPermissionLastWins(perms, method, path, i + 1, TRUE, effect = "allow")
             ELSE hasPermissionLastWins(perms, method, path, i + 1, foundMatch, finalAllow)

hasPermissionNoDenyShortCircuit(perms, method, path) ==
    IF Len(perms) = 0 THEN FALSE
    ELSE hasPermissionLastWins(perms, method, path, 1, FALSE, FALSE)

\* the effect compared without strings.ToLower
hasPermissionCaseSensitive(perms, method, path) ==
    hasPermissionLoop(
        [i \in 1..Len(perms) |->
            IF perms[i].Effect \in {"allow", "deny"} THEN perms[i]
            ELSE [perms[i] EXCEPT !.Effect = "skip"]],
        method, path, 1, FALSE, FALSE)

hasPermission(perms, method, path) ==
    IF Len(perms) = 0 THEN FALSE
    ELSE hasPermissionLoop(perms, method, path, 1, FALSE, FALSE)

(***************************************************************************)
(* Inputs of the direct calls of the policy functions                      *)
(***************************************************************************)
Rule(res, act, eff) == [Resources |-> res, Actions |-> act, Effect |-> eff]

EvalRules ==
    { Rule(<<"api/v1/users/*">>, <<"get", "POST">>, "Allow"),
      Rule(<<"api/v1/users/123">>, <<"*">>, "deny"),
      Rule(<<"api/v1/products/read", "api/v1/users/*">>, <<"Get">>, "DENY"),
      Rule(<<"api/v1/users/123">>, <<"GET">>, "audit"),
      Rule(<<"api/v1/products/read">>, <<"*">>, "allow") }

EvalMethods == {"GET", "post"}

EvalPaths ==
    {"api/v1/users/123", "api/v1/users/123/roles", "api/v1/usersx",
     "api/v1/users", "api/v1/products/read"}

EvalPatterns ==
    {"api/v1/users/*", "api/v1/users/123", "api/v1/users", "api/v1/products/read",
     "/*", "*", ""}

RECURSIVE SeqsUpTo(_, _)
SeqsUpTo(S, n) ==
    IF n = 0 THEN {<<>>}
    ELSE LET shorter == SeqsUpTo(S, n - 1)
         IN  shorter \cup {Append(s, x) : s \in {t \in shorter : Len(t) = n - 1}, x \in S}

NoOutput == [done |-> FALSE, value |-> FALSE]

EvalInputs ==
    [fn : {"hasPermission"}, perms : SeqsUpTo(EvalRules, MaxRules),
     method : EvalMethods, path : EvalPaths]
    \cup
    [fn : {"matchPathPattern"}, pattern : EvalPatterns, path : EvalPaths]

NoHeader  == [AccessKeyID |-> "", Timestamp |-> "", Signature |-> ""]
NoRequest == [Method |-> "", Path |-> "", Query |-> << >>, Header |-> NoHeader, Body |-> ""]
NoLocals  == [status |-> "", updateFailed |-> FALSE, permissions |-> [kind |-> "null", items |-> << >>]]
NoResponse == [status |-> 0, body |-> "", forwarded |-> FALSE]

\* no request in flight
GateIdle ==
    /\ pc = "idle"
    /\ inbound = NoRequest
    /\ r = NoRequest
    /\ locals = NoLocals
    /\ response = NoResponse
    /\ calls = << >>
    /\ inactiveSinceStart = FALSE

\* the store of a process that has not called InitDB and holds no rows
EmptyStore ==
    /\ DB = "nil"
    /\ access_keys = << >>
    /\ roles = << >>
    /\ access_key_roles = << >>
    /\ revoked = {}

EvalInit ==
    /\ GateIdle
    /\ input \in EvalInputs
    /\ output = NoOutput
    /\ EmptyStore

CallHasPermission ==
    /\ input.fn = "hasPermission"
    /\ ~output.done
    /\ output' = [done |-> TRUE,
                  value |-> hasPermission(input.perms, input.method, input.path)]
    /\ UNCHANGED <<input, storeVars, gateVars>>

CallMatchPathPattern ==
    /\ input.fn = "matchPathPattern"
    /\ ~output.done
    /\ output' = [done |-> TRUE, value |-> matchPathPattern(input.pattern, input.path)]
    /\ UNCHANGED <<input, storeVars, gateVars>>

EvalNext ==
    \/ CallHasPermission
    \/ CallMatchPathPattern

SpecEval == EvalInit /\ [][EvalNext]_vars

(***************************************************************************)
(* accesskey.go: GetAccessKeyPermissions.                                  *)
(* A permissions column holds JSON text; it is modelled by the JSON value  *)
(* it denotes: [kind, items] with kind "array" (items: the rule objects),  *)
(* "object" (items: the one rule object), "null", or "invalid": any other  *)
(* JSON document (a number, a string), or text that is not JSON where the  *)
(* column is not of the type JSON that estest.go:489 and :503 declare.     *)
(***************************************************************************)
JsonArray(items) == [kind |-> "array", items |-> items]
JsonObject(rule) == [kind |-> "object", items |-> <<rule>>]
JsonNull         == [kind |-> "null", items |-> << >>]
JsonInvalid      == [kind |-> "invalid", items |-> << >>]

\* json.Unmarshal([]byte(text), &perms) with perms a []*Permissions
Unmarshal(json) ==
    CASE json.kind = "array" -> [err |-> FALSE, perms |-> json.items]
      [] json.kind = "null"  -> [err |-> FALSE, perms |-> << >>]
      [] OTHER               -> [err |-> TRUE,  perms |-> << >>]

\* fmt.Sprintf("%v", []string{...})
FormatStrings(strs) == "[" \o Join(strs, " ") \o "]"

\* fmt.Sprintf("%v-%v-%v", perm.Resources, perm.Actions, perm.Effect)
PermKey(perm) ==
    FormatStrings(perm.Resources) \o "-" \o FormatStrings(perm.Actions) \o "-" \o perm.Effect

\* permMap[key] = perm; the map is the set of its <<key, value>> entries
MapPut(permMap, key, perm) ==
    {e \in permMap : e[1] # key} \cup {<<key, perm>>}

RECURSIVE PutPerms(_, _, _)
PutPerms(permMap, perms, i) ==
    IF i > Len(perms) THEN permMap
    ELSE PutPerms(MapPut(permMap, PermKey(perms[i]), perms[i]), perms, i + 1)

\* the same loop with `continue` in place of `return nil, err`
RECURSIVE PutRolePermsSkipsUnparsable(_, _, _)
PutRolePermsSkipsUnparsable(permMap, rows, i) ==
    IF i > Len(rows) THEN [err |-> FALSE, permMap |-> permMap]
    ELSE LET parsed == Unmarshal(rows[i])
         IN  PutRolePermsSkipsUnparsable(
                 IF parsed.err THEN permMap ELSE PutPerms(permMap, parsed.perms, 1),
                 rows, i + 1)

\* the loop over rows.Next(): the first role payload that does not parse ends it
RECURSIVE PutRolePerms(_, _, _)
PutRolePerms(permMap, rows, i) ==
    IF i > Len(rows) THEN [err |-> FALSE, permMap |-> permMap]
    ELSE LET parsed == Unmarshal(rows[i])
         IN  IF parsed.err THEN [err |-> TRUE, permMap |-> {}]
             ELSE PutRolePerms(PutPerms(permMap, parsed.perms, 1), rows, i + 1)

\* SELECT permissions FROM access_keys WHERE access_key = ?
SelectPermissions(accessKeyID) ==
    IF accessKeyID \in DOMAIN access_keys
    THEN [err |-> FALSE, permissions |-> access_keys[accessKeyID].permissions]
    ELSE [err |-> TRUE, permissions |-> JsonInvalid]

\* SELECT r.permissions FROM roles r JOIN access_key_roles akr ON r.id = akr.role_id
\* WHERE akr.access_key_id = ?    -- the rows, in each order the store may return them
RoleRowCount(accessKeyID, role) ==
    IF <<accessKeyID, role>> \in DOMAIN access_key_roles
    THEN access_key_roles[<<accessKeyID, role>>] ELSE 0

\* the query without its WHERE akr.access_key_id = ?: the rows of every
\* assignment there is or was
SelectRolePermissionsOfAnyKey(accessKeyID) ==
    LET ids == {role \in DOMAIN roles :
                  \E pair \in DOMAIN access_key_roles \cup revoked : pair[2] = role}
    IN  { [i \in 1..Cardinality(ids) |-> roles[order[i]].permissions] :
            order \in {o \in [1..Cardinality(ids) -> ids] :
                        \A i, j \in 1..Cardinality(ids) : o[i] = o[j] => i = j} }

SelectRolePermissions(accessKeyID) ==
    LET ids == DOMAIN roles
        n   == IF ids = {} THEN 0
               ELSE LET Sum[S \in SUBSET ids] ==
                            IF S = {} THEN 0
                            ELSE LET x == CHOOSE y \in S : TRUE
                                 IN  RoleRowCount(accessKeyID, x) + Sum[S \ {x}]
                    IN  Sum[ids]
    IN  { [i \in 1..n |-> roles[order[i]].permissions] :
            order \in {o \in [1..n -> ids] :
                        \A role \in ids :
                            Cardinality({i \in 1..n : o[i] = role})
                                = RoleRowCount(accessKeyID, role)} }

\* the body after the two queries: parse, fill permMap, parse and fill per role row
MergePermissions(permissions, rows) ==
    LET keyPerms == Unmarshal(permissions)
    IN  IF keyPerms.err THEN [err |-> TRUE, permMap |-> {}]
        ELSE PutRolePerms(PutPerms({}, keyPerms.perms, 1), rows, 1)

\* for k, perm := range permMap: the values in each order the map may yield them
MapValueOrders(permMap) ==
    LET n == Cardinality(permMap)
    IN  { [i \in 1..n |-> order[i][2]] :
            order \in {o \in [1..n -> permMap] : \A i, j \in 1..n : o[i] = o[j] => i = j} }

\* GetAccessKeyPermissions(accessKeyID): every (error, slice) it may return when
\* the store answers the queries up to `failAt` ("none", "permissions", "roles")
GetAccessKeyPermissions(accessKeyID, failAt) ==
    LET failed == {[err |-> TRUE, perms |-> << >>]}
        sel    == SelectPermissions(accessKeyID)
    IN  IF DB = "nil" THEN failed
        ELSE IF failAt = "permissions" \/ sel.err THEN failed
        ELSE IF failAt = "roles" THEN failed
        ELSE UNION { LET merged == MergePermissions(sel.permissions, rows)
                     IN  IF merged.err THEN failed
                         ELSE {[err |-> FALSE, perms |-> all] :
                                 all \in MapValueOrders(merged.permMap)}
                     : rows \in SelectRolePermissions(accessKeyID) }

(***************************************************************************)
(* Direct calls of GetAccessKeyPermissions on a populated store            *)
(***************************************************************************)
RuleA      == Rule(<<"a">>, <<"GET">>, "allow")
RuleADeny  == Rule(<<"a">>, <<"GET">>, "deny")
RuleAB     == Rule(<<"a", "b">>, <<"GET">>, "allow")
RuleAspB   == Rule(<<"a b">>, <<"GET">>, "allow")
RuleDashInResource == Rule(<<"a]-[GET">>, <<"GET">>, "allow")
RuleDashInAction   == Rule(<<"a">>, <<"GET]-[GET">>, "allow")

PermPayloads ==
    { JsonArray(<< >>), JsonArray(<<RuleA>>), JsonArray(<<RuleAB>>),
      JsonArray(<<RuleAspB, RuleADeny>>), JsonArray(<<RuleA, RuleA>>),
      JsonNull, JsonInvalid, JsonObject(RuleA),
      JsonArray(<<RuleDashInResource, RuleDashInAction>>) }

KeyRow(secret, status, permissions) ==
    [secret_key |-> secret, status |-> status, permissions |-> permissions,
     last_used_at |-> 0]

PermInit ==
    /\ GateIdle
    /\ input \in [fn : {"GetAccessKeyPermissions"}, accessKeyID : {"K1", "K2"}]
    /\ output = NoOutput
    /\ DB \in {"nil", "open"}
    /\ \E p \in PermPayloads : access_keys = [k \in {"K1"} |-> KeyRow("S1", "active", p)]
    /\ roles \in [{1, 2} -> [permissions : PermPayloads]]
    /\ access_key_roles \in [{"K1"} \X {1, 2} -> {0, 1}]
    /\ revoked = {}

CallGetAccessKeyPermissions ==
    /\ input.fn = "GetAccessKeyPermissions"
    /\ ~output.done
    /\ \E failAt \in {"none", "permissions", "roles"} :
       \E ret \in GetAccessKeyPermissions(input.accessKeyID, failAt) :
          output' = [done |-> TRUE, value |-> ret, failAt |-> failAt]
    /\ UNCHANGED <<input, storeVars, gateVars>>

PermNext == CallGetAccessKeyPermissions

SpecPerm == PermInit /\ [][PermNext]_vars

(***************************************************************************)
(* signature.go: GenerateStringToSign, SignRequest, VerifyRequestSignature *)
(* accesskey.go: GenerateSignature, VerifySignature                        *)
(*                                                                         *)
(* A request is [Method, Path, Query, Header]: Query is the sequence of    *)
(* decoded <<key, value>> pairs of the URL in their order, Header holds    *)
(* the three transport headers ("" when absent: Header.Get gives "").      *)
(***************************************************************************)
Digits == "0123456789"

\* fmt.Sprintf("%d", n)
RECURSIVE FormatInt(_)
FormatInt(n) ==
    IF n < 10 THEN CharAt(Digits, n + 1)
    ELSE FormatInt(n \div 10) \o CharAt(Digits, (n % 10) + 1)

\* the characters of the model's strings in byte order
ByteOrder == "\n &*-/0123456789=ABCDEFGHIJKLMNOPQRSTUVWXYZ[]_abcdefghijklmnopqrstuvwxyz"

ByteOf(c) == CHOOSE i \in 1..Len(ByteOrder) : CharAt(ByteOrder, i) = c

\* a < b as Go compares strings
RECURSIVE StringLess(_, _)
StringLess(a, b) ==
    IF Len(b) = 0 THEN FALSE
    ELSE IF Len(a) = 0 THEN TRUE
    ELSE IF CharAt(a, 1) = CharAt(b, 1)
         THEN StringLess(SubSeq(a, 2, Len(a)), SubSeq(b, 2, Len(b)))
         ELSE ByteOf(CharAt(a, 1)) < ByteOf(CharAt(b, 1))

\* sort.Strings over the keys of a map
RECURSIVE SortStrings(_)
SortStrings(keys) ==
    IF keys = {} THEN << >>
    ELSE LET least == CHOOSE k \in keys : \A other \in keys \ {k} : StringLess(k, other)
         IN  <<least>> \o SortStrings(keys \ {least})

\* for k, v := range req.URL.Query() { queryParams[k] = v[0] }
QueryParams(query) ==
    [k \in {query[i][1] : i \in 1..Len(query)} |->
        query[CHOOSE i \in 1..Len(query) :
                /\ query[i][1] = k
                /\ \A j \in 1..(i - 1) : query[j][1] # k][2]]

\* base64.StdEncoding.EncodeToString(sha256.Sum256(content)[:])
Sha256Base64(content) == "sha256[" \o content \o "]"

\* the credential id put in front of the method
GenerateStringToSignWithAccessKeyID(params) ==
    LET queryKeys  == SortStrings(DOMAIN params.QueryParams)
        queryParts == [i \in 1..Len(queryKeys) |->
                          queryKeys[i] \o "=" \o params.QueryParams[queryKeys[i]]]
        hashPart   == IF Len(params.Content) > 0
                      THEN Sha256Base64(params.Content) ELSE ""
    IN  Join(<<params.AccessKeyID, params.Method, params.Path, Join(queryParts, "&"),
               params.Timestamp, hashPart>>, "\n")

GenerateStringToSign(params) ==
    LET queryKeys  == SortStrings(DOMAIN params.QueryParams)
        queryParts == [i \in 1..Len(queryKeys) |->
                          queryKeys[i] \o "=" \o params.QueryParams[queryKeys[i]]]
        hashPart   == IF Len(params.Content) > 0
                      THEN Sha256Base64(params.Content) ELSE ""
    IN  Join(<<params.Method, params.Path, Join(queryParts, "&"),
               params.Timestamp, hashPart>>, "\n")

\* base64 of HMAC-SHA256(accessKeySecret, stringToSign)
GenerateSignature(accessKeySecret, stringToSign) ==
    "hmac[" \o accessKeySecret \o "][" \o stringToSign \o "]"

\* for k, v := range req.Header { if len(v) > 0 [&& k != "X-Signature"] { headers[k] = v[0] } }
\* over the transport headers the request carries
Headers(header, skipped) ==
    [k \in {f \in {"AccessKeyID", "Timestamp", "Signature"} \ skipped : header[f] # ""}
        |-> header[k]]

SignatureParams(req, accessKeyID, headers, timestamp, content) ==
    [AccessKeyID |-> accessKeyID, Method |-> req.Method, Path |-> req.Path,
     QueryParams |-> QueryParams(req.Query), Headers |-> headers,
     Timestamp |-> timestamp, Content |-> content]

\* SignRequest(req, accessKeyID, accessKeySecret, content) at Unix time `now`:
\* the request with its three headers set
SignRequest(req, accessKeyID, accessKeySecret, content, now) ==
    LET timestamp    == FormatInt(now)
        headers      == Headers([req.Header EXCEPT !.AccessKeyID = accessKeyID,
                                                   !.Timestamp = timestamp], {})
        stringToSign == GenerateStringToSign(
                            SignatureParams(req, accessKeyID, headers, timestamp,
                                            content))
    IN  [req EXCEPT !.Header =
            [AccessKeyID |-> accessKeyID, Timestamp |-> timestamp,
             Signature |-> GenerateSignature(accessKeySecret, stringToSign)]]

Returned(ok, err) == [ok |-> ok, err |-> err]

\* the comparison of the two signatures lost: any signature passes
VerifySignatureNoCompare(accessKeyID, stringToSign, signature, storeFails) ==
    IF DB = "nil" THEN Returned(FALSE, TRUE)
    ELSE IF storeFails THEN Returned(FALSE, TRUE)
    ELSE IF ~(accessKeyID \in DOMAIN access_keys
              /\ access_keys[accessKeyID].status = "active")
         THEN Returned(FALSE, FALSE)
    ELSE Returned(TRUE, FALSE)

\* the query without its "AND status = 'active'"
VerifySignatureAnyStatus(accessKeyID, stringToSign, signature, storeFails) ==
    IF DB = "nil" THEN Returned(FALSE, TRUE)
    ELSE IF storeFails THEN Returned(FALSE, TRUE)
    ELSE IF accessKeyID \notin DOMAIN access_keys THEN Returned(FALSE, FALSE)
    ELSE Returned(
            GenerateSignature(access_keys[accessKeyID].secret_key, stringToSign)
                = signature,
            FALSE)

\* VerifySignature; storeFails: the query ends in an error other than ErrNoRows
VerifySignature(accessKeyID, stringToSign, signature, storeFails) ==
    IF DB = "nil" THEN Returned(FALSE, TRUE)
    ELSE IF storeFails THEN Returned(FALSE, TRUE)
    ELSE IF ~(accessKeyID \in DOMAIN access_keys
              /\ access_keys[accessKeyID].status = "active")
         THEN Returned(FALSE, FALSE)
    ELSE Returned(
            GenerateSignature(access_keys[accessKeyID].secret_key, stringToSign)
                = signature,
            FALSE)

VerifyRequestSignature(req, content, storeFails) ==
    IF req.Header.AccessKeyID = "" THEN Returned(FALSE, TRUE)
    ELSE IF req.Header.Timestamp = "" THEN Returned(FALSE, TRUE)
    ELSE IF req.Header.Signature = "" THEN Returned(FALSE, TRUE)
    ELSE VerifySignature(
            req.Header.AccessKeyID,
            GenerateStringToSign(
                SignatureParams(req, req.Header.AccessKeyID,
                                Headers(req.Header, {"Signature"}),
                                req.Header.Timestamp, content)),
            req.Header.Signature,
            storeFails)

\* the queries a call sends to the store, in their order
Query(statement, key) == [statement |-> statement, key |-> key]

\* accesskey.go:273-282
VerifySignatureQueries(accessKeyID) ==
    IF DB = "nil" THEN << >>
    ELSE <<Query("SELECT secret_key FROM access_keys", accessKeyID)>>

\* the header tests moved behind the call of VerifySignature
VerifyRequestSignatureQueriesThenHeaders(req) ==
    VerifySignatureQueries(req.Header.AccessKeyID)

\* signature.go:107-153
VerifyRequestSignatureQueries(req) ==
    IF req.Header.AccessKeyID = "" THEN << >>
    ELSE IF req.Header.Timestamp = "" THEN << >>
    ELSE IF req.Header.Signature = "" THEN << >>
    ELSE VerifySignatureQueries(req.Header.AccessKeyID)

(***************************************************************************)
(* Direct calls of SignRequest and VerifyRequestSignature                  *)
(***************************************************************************)
SignQueries ==
    { << >>, << <<"a", "1">> >>, << <<"b", "2">>, <<"a", "1">> >>,
      << <<"a", "1">>, <<"a", "2">> >> }

SignRequests ==
    [Method : {"GET", "POST"}, Path : {"api/v1/users/42"}, Query : SignQueries,
     Header : {NoHeader,
               [AccessKeyID |-> "K1", Timestamp |-> "1", Signature |-> "stale"],
               [AccessKeyID |-> "", Timestamp |-> "1", Signature |-> "stale"],
               [AccessKeyID |-> "K1", Timestamp |-> "", Signature |-> "stale"],
               [AccessKeyID |-> "K1", Timestamp |-> "1", Signature |-> ""]}]

\* m := map[string]string{}; m[k] = v for each pair in its order
RECURSIVE MakeMap(_)
MakeMap(pairs) ==
    IF pairs = << >> THEN << >>
    ELSE LET n    == Len(pairs)
             rest == MakeMap(SubSeq(pairs, 1, n - 1))
         IN  [k \in DOMAIN rest \cup {pairs[n][1]} |->
                 IF k = pairs[n][1] THEN pairs[n][2] ELSE rest[k]]

\* the orders in which a caller may fill the QueryParams of a SignatureParams
QueryInsertions ==
    { << >>, << <<"a", "1">> >>, << <<"a", "1">>, <<"b", "2">> >>,
      << <<"b", "2">>, <<"a", "1">> >>, << <<"b", "2">>, <<"B", "2">>, <<"a", "1">> >>,
      << <<"a", "2">>, <<"b", "2">> >> }

StringToSignArguments ==
    [AccessKeyID : {"K1", "K2"}, Method : {"GET"}, Path : {"api/v1/users/42"},
     inserted : QueryInsertions,
     Headers : {MakeMap(<< >>), MakeMap(<< <<"X-Timestamp", "9">> >>)},
     Timestamp : {"1", "2"}, Content : {"", "body"}]

\* the SignatureParams value the caller built
BuiltParams(a) ==
    [AccessKeyID |-> a.AccessKeyID, Method |-> a.Method, Path |-> a.Path,
     QueryParams |-> MakeMap(a.inserted), Headers |-> a.Headers,
     Timestamp |-> a.Timestamp, Content |-> a.Content]

Statuses == {"active", "inactive", "expired"}

Now == 1700000000

\* the canonical string SignRequest / VerifyRequestSignature build for a request
StringToSignOf(req, accessKeyID, timestamp, content) ==
    GenerateStringToSign(
        SignatureParams(req, accessKeyID, Headers(req.Header, {"Signature"}),
                        timestamp, content))

\* requests whose query strings differ in a key, a value, a later value of a
\* repeated key, or in where "&" and "=" stand inside a decoded key or value
OtherQueries ==
    { << >>, << <<"a", "1">> >>, << <<"a", "1">>, <<"a", "2">> >>,
      << <<"a", "1">>, <<"b", "2">> >>, << <<"a", "1&b=2">> >> }

OtherRequests ==
    [Method : {"GET", "POST"}, Path : {"api/v1/users/42"}, Query : OtherQueries,
     Header : {NoHeader}]

SignInit ==
    /\ GateIdle
    /\ output = NoOutput
    /\ roles = << >>
    /\ access_key_roles = << >>
    /\ revoked = {}
    /\ \/ /\ input \in [fn : {"VerifyRequestSignature"}, req : SignRequests,
                          accessKeyID : {"K1", "K2", ""}, accessKeySecret : {"S1", "S2"},
                          content : {"", "body"}, signed : {FALSE}]
          /\ DB \in {"nil", "open"}
          /\ \E status \in Statuses, secret \in {"S1", "S2"} :
                access_keys = [k \in {"K1"} |-> KeyRow(secret, status, JsonArray(<< >>))]
       \/ /\ input \in [fn : {"GenerateStringToSign"},
                          a : StringToSignArguments, b : StringToSignArguments]
          /\ DB = "nil"
          /\ access_keys = << >>
       \/ /\ input \in [fn : {"SignOneVerifyOther"},
                          signed : OtherRequests, contentSigned : {"", "body"},
                          other : OtherRequests, contentOther : {"", "body"},
                          timestampOther : {FormatInt(Now), "1"}]
          /\ DB = "open"
          /\ access_keys = [k \in {"K1"} |-> KeyRow("S1", "active", JsonArray(<< >>))]

CallSignRequest ==
    /\ input.fn = "VerifyRequestSignature"
    /\ ~input.signed
    /\ ~output.done
    /\ input' = [input EXCEPT
                   !.req = SignRequest(input.req, input.accessKeyID,
                                       input.accessKeySecret, input.content, Now),
                   !.signed = TRUE]
    /\ UNCHANGED <<output, storeVars, gateVars>>

CallVerifyRequestSignature ==
    /\ input.fn = "VerifyRequestSignature"
    /\ ~output.done
    /\ \E storeFails \in BOOLEAN :
          output' = [done |-> TRUE,
                     value |-> VerifyRequestSignature(input.req, input.content, storeFails),
                     storeFails |-> storeFails,
                     queries |-> VerifyRequestSignatureQueries(input.req)]
    /\ UNCHANGED <<input, storeVars, gateVars>>

\* GenerateStringToSign called on two SignatureParams values
CallGenerateStringToSign ==
    /\ input.fn = "GenerateStringToSign"
    /\ ~output.done
    /\ output' = [done |-> TRUE,
                  value |-> <<GenerateStringToSign(BuiltParams(input.a)),
                              GenerateStringToSign(BuiltParams(input.b))>>]
    /\ UNCHANGED <<input, storeVars, gateVars>>

\* SignRequest on one request, then VerifyRequestSignature on another request
\* that carries the credential id and the signature of the first
CallSignOneVerifyOther ==
    /\ input.fn = "SignOneVerifyOther"
    /\ ~output.done
    /\ LET signed    == SignRequest(input.signed, "K1", "S1", input.contentSigned, Now)
           presented == [input.other EXCEPT
                           !.Header = [signed.Header EXCEPT
                                         !.Timestamp = input.timestampOther]]
       IN  output' = [done |-> TRUE,
                      value |-> VerifyRequestSignature(presented, input.contentOther,
                                                       FALSE),
                      strings |-> <<StringToSignOf(signed, "K1", signed.Header.Timestamp,
                                                   input.contentSigned),
                                    StringToSignOf(presented, "K1", input.timestampOther,
                                                   input.contentOther)>>]
    /\ UNCHANGED <<input, storeVars, gateVars>>

SignNext ==
    \/ CallSignRequest
    \/ CallVerifyRequestSignature
    \/ CallGenerateStringToSign
    \/ CallSignOneVerifyOther

SpecSign == SignInit /\ [][SignNext]_vars

(***************************************************************************)
(* signature.go: CreateMiddleware, the handler it returns.                 *)
(* One request is in flight at a time; the handler is cut at its store     *)
(* accesses, between which the store may change.                           *)
(***************************************************************************)
GateRules ==
    [ allowUsers |-> Rule(<<"api/v1/users/*">>, <<"GET">>, "allow"),
      denyUsers  |-> Rule(<<"api/v1/users/*">>, <<"*">>, "deny"),
      allowPost  |-> Rule(<<"api/v1/users/*">>, <<"POST">>, "allow") ]

GatePayloads == {JsonArray(<<GateRules.allowUsers>>), JsonArray(<< >>), JsonInvalid}

RolePayloads ==
    {JsonArray(<<GateRules.denyUsers>>), JsonArray(<<GateRules.allowPost>>), JsonInvalid}

\* the requests clients send: signed with a credential id and a secret, signed
\* and then stripped of one transport header, or not signed at all
UnsignedRequests ==
    [Method : {"GET", "POST"}, Path : {"api/v1/users/42"}, Query : {<< >>},
     Header : {NoHeader}, Body : {""}]

ClientCredentials == {<<"K1", "S1">>, <<"K1", "S2">>, <<"14789", "wen">>}

ClientSigned ==
    {SignRequest(req, c[1], c[2], req.Body, Now) :
        req \in UnsignedRequests, c \in ClientCredentials}

Stripped(req) ==
    { [req EXCEPT !.Header.AccessKeyID = ""],
      [req EXCEPT !.Header.Timestamp = ""],
      [req EXCEPT !.Header.Signature = ""] }

InboundRequests ==
    UnsignedRequests \cup ClientSigned
        \cup UNION {Stripped(SignRequest(req, "K1", "S1", req.Body, Now)) :
                        req \in UnsignedRequests}

\* The process starts with DB nil.  The tables hold credential K1 and may hold
\* the credential whose id and secret the middleware passes to SignRequest.
GateInit ==
    /\ GateIdle
    /\ input = [fn |-> "none"]
    /\ output = NoOutput
    /\ DB = "nil"
    /\ \E p \in GatePayloads :
          access_keys \in
            { [k \in {"K1"} |-> KeyRow("S1", "active", JsonArray(<<GateRules.allowUsers>>))],
              [k \in {"K1", "14789"} |->
                  IF k = "K1"
                  THEN KeyRow("S1", "active", JsonArray(<<GateRules.allowUsers>>))
                  ELSE KeyRow("wen", "active", p)] }
    /\ roles \in [{1} -> [permissions : RolePayloads]]
    /\ access_key_roles \in [{<<"14789", 1>>} -> {0, 1}]
    /\ revoked = {}

\* accesskey.go: InitDB
InitDB ==
    /\ DB = "nil"
    /\ DB' = "open"
    /\ UNCHANGED <<access_keys, roles, access_key_roles, revoked, callVars, gateVars>>

\* a credential's lifecycle transition, written to the store by its administrator
SetStatus(accessKeyID, status) ==
    /\ accessKeyID \in DOMAIN access_keys
    /\ access_keys[accessKeyID].status # status
    /\ access_keys' = [access_keys EXCEPT ![accessKeyID].status = status]
    /\ inactiveSinceStart' =
          IF accessKeyID = inbound.Header.AccessKeyID /\ status = "active"
          THEN FALSE ELSE inactiveSinceStart
    /\ UNCHANGED <<DB, roles, access_key_roles, revoked, callVars,
                   pc, inbound, r, locals, response, calls>>

Called(fn, ok, err) == [fn |-> fn, ok |-> ok, err |-> err]

\* w.WriteHeader(status); w.Write(body); return
Reject(status, body) ==
    /\ response' = [status |-> status, body |-> body, forwarded |-> FALSE]
    /\ pc' = "done"

\* signature.go:226-234: read the body, then SignRequest(r, "14789", "wen", body)
GateReceive(req) ==
    /\ pc = "idle"
    /\ inbound' = req
    /\ r' = SignRequest(req, "14789", "wen", req.Body, Now)
    /\ inactiveSinceStart' =
          /\ req.Header.AccessKeyID \in DOMAIN access_keys
          /\ access_keys[req.Header.AccessKeyID].status # "active"
    /\ pc' = "received"
    /\ UNCHANGED <<locals, response, calls, storeVars, callVars>>

\* signature.go:242-247
GateVerifySignature ==
    /\ pc = "received"
    /\ \E storeFails \in BOOLEAN :
          LET v == VerifyRequestSignature(r, r.Body, storeFails)
          IN  /\ calls' = Append(calls, Called("VerifyRequestSignature", v.ok, v.err))
              /\ IF v.err \/ ~v.ok
                 THEN Reject(401, "Invalid signature")
                 ELSE pc' = "sigChecked" /\ UNCHANGED response
    /\ UNCHANGED <<inbound, r, locals, inactiveSinceStart, storeVars, callVars>>

\* signature.go:250-251 into accesskey.go:155-171: ValidateAccessKey up to the
\* SELECT of the status
GateSelectStatus ==
    /\ pc = "sigChecked"
    /\ \E storeFails \in BOOLEAN :
          LET accessKeyID == r.Header.AccessKeyID
          IN  IF DB = "nil" \/ storeFails
              THEN /\ calls' = Append(calls, Called("ValidateAccessKey", FALSE, TRUE))
                   /\ Reject(401, "Invalid access key")
                   /\ UNCHANGED locals
              ELSE IF accessKeyID \notin DOMAIN access_keys
              THEN /\ calls' = Append(calls, Called("ValidateAccessKey", FALSE, FALSE))
                   /\ Reject(401, "Invalid access key")
                   /\ UNCHANGED locals
              ELSE /\ locals' = [locals EXCEPT !.status = access_keys[accessKeyID].status]
                   /\ pc' = "statusSelected"
                   /\ UNCHANGED <<calls, response>>
    /\ UNCHANGED <<inbound, r, inactiveSinceStart, storeVars, callVars>>

\* the same step with the result of ValidateAccessKey not looked at
GateUpdateLastUsedIgnoresResult ==
    /\ pc = "statusSelected"
    /\ \E storeFails \in BOOLEAN :
          LET accessKeyID == r.Header.AccessKeyID
              valid       == locals.status = "active"
          IN  /\ calls' = Append(calls, Called("ValidateAccessKey",
                                               ~storeFails /\ valid, storeFails))
              /\ locals' = [locals EXCEPT !.updateFailed = storeFails]
              /\ pc' = "credChecked"
              /\ UNCHANGED <<response, access_keys>>
    /\ UNCHANGED <<inbound, r, inactiveSinceStart, DB, roles, access_key_roles, revoked,
                   callVars>>

\* accesskey.go:173-184 and signature.go:252-256: the UPDATE of last_used_at,
\* the return of ValidateAccessKey and the handler's test of it
GateUpdateLastUsed ==
    /\ pc = "statusSelected"
    /\ \E storeFails \in BOOLEAN :
          LET accessKeyID == r.Header.AccessKeyID
              valid       == locals.status = "active"
          IN  IF storeFails
              THEN /\ calls' = Append(calls, Called("ValidateAccessKey", FALSE, TRUE))
                   /\ locals' = [locals EXCEPT !.updateFailed = TRUE]
                   /\ Reject(401, "Invalid access key")
                   /\ UNCHANGED access_keys
              ELSE /\ access_keys' =
                        IF accessKeyID \in DOMAIN access_keys
                        THEN [access_keys EXCEPT ![accessKeyID].last_used_at = Now]
                        ELSE access_keys
                   /\ calls' = Append(calls, Called("ValidateAccessKey", valid, FALSE))
                   /\ UNCHANGED locals
                   /\ IF ~valid
                      THEN Reject(401, "Invalid access key")
                      ELSE pc' = "credChecked" /\ UNCHANGED response
    /\ UNCHANGED <<inbound, r, inactiveSinceStart, DB, roles, access_key_roles, revoked,
                   callVars>>

\* signature.go:259-285: what the handler answers to the result of
\* GetAccessKeyPermissions: 500, 403, or the call of the protected handler
AnswerOnPermissions(ret, method, path) ==
    IF ret.err
    THEN [status |-> 500, body |-> "Error getting permissions", forwarded |-> FALSE]
    ELSE IF ~hasPermission(ret.perms, method, path)
    THEN [status |-> 403, body |-> "Insufficient permissions", forwarded |-> FALSE]
    ELSE [NoResponse EXCEPT !.forwarded = TRUE]

\* signature.go:259 into accesskey.go:189-202: GetAccessKeyPermissions up to the
\* SELECT of the credential's permissions
GateSelectPermissions ==
    /\ pc = "credChecked"
    /\ \E storeFails \in BOOLEAN :
          LET sel == SelectPermissions(r.Header.AccessKeyID)
          IN  IF DB = "nil" \/ storeFails \/ sel.err
              THEN /\ calls' = Append(calls, Called("GetAccessKeyPermissions", FALSE, TRUE))
                   /\ response' = AnswerOnPermissions([err |-> TRUE, perms |-> << >>],
                                                      r.Method, r.Path)
                   /\ pc' = "done"
                   /\ UNCHANGED locals
              ELSE /\ locals' = [locals EXCEPT !.permissions = sel.permissions]
                   /\ pc' = "permsSelected"
                   /\ UNCHANGED <<calls, response>>
    /\ UNCHANGED <<inbound, r, inactiveSinceStart, storeVars, callVars>>

\* accesskey.go:205-261 and signature.go:260-285: the query of the role
\* permissions, the merge, the handler's test of the error, hasPermission, and
\* the rejection or the call of the protected handler
GateResolveAndEvaluate ==
    /\ pc = "permsSelected"
    /\ \E storeFails \in BOOLEAN :
       \E rows \in SelectRolePermissions(r.Header.AccessKeyID) :
          LET merged == MergePermissions(locals.permissions, rows)
          IN  IF storeFails \/ merged.err
              THEN /\ calls' = Append(calls, Called("GetAccessKeyPermissions", FALSE, TRUE))
                   /\ response' = AnswerOnPermissions([err |-> TRUE, perms |-> << >>],
                                                      r.Method, r.Path)
                   /\ pc' = "done"
              ELSE \E permissions \in MapValueOrders(merged.permMap) :
                      LET allowed == hasPermission(permissions, r.Method, r.Path)
                      IN  /\ calls' = calls \o
                                <<Called("GetAccessKeyPermissions", TRUE, FALSE),
                                  Called("hasPermission", allowed, FALSE)>>
                          /\ response' = AnswerOnPermissions(
                                            [err |-> FALSE, perms |-> permissions],
                                            r.Method, r.Path)
                          /\ pc' = "done"
    /\ UNCHANGED <<inbound, r, locals, inactiveSinceStart, storeVars, callVars>>

\* the handler has returned; the next request may arrive
GateReturn ==
    /\ pc = "done"
    /\ pc' = "idle"
    /\ inbound' = NoRequest
    /\ r' = NoRequest
    /\ locals' = NoLocals
    /\ response' = NoResponse
    /\ calls' = << >>
    /\ inactiveSinceStart' = FALSE
    /\ UNCHANGED <<storeVars, callVars>>

Next ==
    \/ InitDB
    \/ \E accessKeyID \in {"K1", "14789"}, status \in Statuses :
          SetStatus(accessKeyID, status)
    \/ \E req \in InboundRequests : GateReceive(req)
    \/ GateVerifySignature
    \/ GateSelectStatus
    \/ GateUpdateLastUsed
    \/ GateSelectPermissions
    \/ GateResolveAndEvaluate
    \/ GateReturn

Spec == GateInit /\ [][Next]_vars

(***************************************************************************)
(* accesskey.go: CreateAccessKey, AssignRoleToAccessKey, ValidateAccessKey *)
(* and GetAccessKeyPermissions called one after another on one store.      *)
(* input is the last call with its arguments, output what it returned and  *)
(* the table it could write as the call found it.                          *)
(***************************************************************************)
ProductsRead == Rule(<<"api/v1/products/read">>, <<"GET">>, "allow")
UsersAll     == Rule(<<"api/v1/users/*">>, <<"GET">>, "allow")

\* the permissions argument of CreateAccessKey: a list of rules, the single
\* rule object of README.md:37-44, an empty list
CreatePayloads == {JsonArray(<<UsersAll>>), JsonObject(UsersAll), JsonArray(<< >>)}

\* the ids fmt.Sprintf("%x%x", timestamp, randomBytes) may give; "K1" is the
\* id of a stored credential
KeyIDs == {"K1", "K2"}

\* the role ids handed to AssignRoleToAccessKey: role 1 is stored, role 2 is not
RoleIDs == {1, 2}

\* GenerateAccessKeyPair: an id and a secret, or the error of rand.Read
GenerateAccessKeyPair ==
    [id : KeyIDs, secret : {"S2"}, err : {FALSE}]
        \cup {[id |-> "", secret |-> "", err |-> TRUE]}

StoreInit ==
    /\ GateIdle
    /\ input = [fn |-> "none"]
    /\ output = NoOutput
    /\ DB = "nil"
    /\ \E status \in Statuses :
          access_keys = [k \in {"K1"} |-> KeyRow("S1", status, JsonArray(<< >>))]
    /\ roles = [role \in {1} |-> [permissions |-> JsonArray(<<ProductsRead>>)]]
    /\ access_key_roles = << >>
    /\ revoked = {}

\* INSERT INTO access_keys (id, secret_key, access_key, user_id, permissions):
\* the table after it, or the error of a taken id (PRIMARY KEY, estest.go:484);
\* status takes its default 'active' (estest.go:488), last_used_at is NULL
InsertAccessKey(id, secret, permissions) ==
    IF id \in DOMAIN access_keys
    THEN [err |-> TRUE, table |-> access_keys]
    ELSE [err |-> FALSE,
          table |-> [k \in DOMAIN access_keys \cup {id} |->
                        IF k = id THEN KeyRow(secret, "active", permissions)
                        ELSE access_keys[k]]]

CallCreateAccessKey(userID, permissions) ==
    /\ input' = [fn |-> "CreateAccessKey", userID |-> userID, permissions |-> permissions]
    /\ \E pair \in GenerateAccessKeyPair, storeFails \in BOOLEAN :
          LET inserted == InsertAccessKey(pair.id, pair.secret, permissions)
              failed   == [id |-> "", secret |-> "", err |-> TRUE]
          IN  IF DB = "nil" \/ pair.err \/ storeFails \/ inserted.err
              THEN /\ output' = [done |-> TRUE, value |-> failed, before |-> access_keys]
                   /\ UNCHANGED access_keys
              ELSE /\ output' = [done |-> TRUE, value |-> pair, before |-> access_keys]
                   /\ access_keys' = inserted.table
    /\ UNCHANGED <<DB, roles, access_key_roles, revoked, gateVars>>

\* the INSERT without the primary key on (access_key_id, role_id)
InsertAssignmentNoPrimaryKey(accessKeyID, roleID) ==
    LET pair == <<accessKeyID, roleID>>
    IN  [err |-> FALSE,
         table |-> [p \in DOMAIN access_key_roles \cup {pair} |->
                       IF p = pair THEN RoleRowCount(accessKeyID, roleID) + 1
                       ELSE access_key_roles[p]]]

\* INSERT INTO access_key_roles (access_key_id, role_id): the table after it, or
\* the error of a pair already there (PRIMARY KEY, estest.go:526)
InsertAssignment(accessKeyID, roleID) ==
    LET pair == <<accessKeyID, roleID>>
    IN  IF RoleRowCount(accessKeyID, roleID) > 0
        THEN [err |-> TRUE, table |-> access_key_roles]
        ELSE [err |-> FALSE,
              table |-> [p \in DOMAIN access_key_roles \cup {pair} |->
                            IF p = pair THEN 1 ELSE access_key_roles[p]]]

\* failAt: the statement that ends in a store error ("none": no statement does)
CallAssignRoleToAccessKey(accessKeyID, roleID) ==
    /\ input' = [fn |-> "AssignRoleToAccessKey", accessKeyID |-> accessKeyID,
                 roleID |-> roleID]
    /\ \E failAt \in {"none", "access key", "role", "insert"} :
          LET inserted == InsertAssignment(accessKeyID, roleID)
              err == IF DB = "nil" THEN "database not initialized"
                     ELSE IF failAt = "access key" THEN "store error"
                     ELSE IF accessKeyID \notin DOMAIN access_keys
                          THEN "access key not found"
                     ELSE IF failAt = "role" THEN "store error"
                     ELSE IF roleID \notin DOMAIN roles THEN "role not found"
                     ELSE IF failAt = "insert" THEN "store error"
                     ELSE IF inserted.err THEN "duplicate entry"
                     ELSE ""
          IN  /\ output' = [done |-> TRUE, value |-> err, before |-> access_key_roles]
              /\ IF err = ""
                 THEN /\ access_key_roles' = inserted.table
                      /\ revoked' = revoked \ {<<accessKeyID, roleID>>}
                 ELSE UNCHANGED <<access_key_roles, revoked>>
    /\ UNCHANGED <<DB, access_keys, roles, gateVars>>

\* DELETE FROM access_key_roles WHERE access_key_id = ? AND role_id = ?, by
\* whoever administers the store
RemoveAssignment(accessKeyID, roleID) ==
    /\ RoleRowCount(accessKeyID, roleID) > 0
    /\ access_key_roles' =
          [p \in DOMAIN access_key_roles \ {<<accessKeyID, roleID>>} |->
              access_key_roles[p]]
    /\ revoked' = revoked \cup {<<accessKeyID, roleID>>}
    /\ input' = [fn |-> "none"]
    /\ output' = NoOutput
    /\ UNCHANGED <<DB, access_keys, roles, gateVars>>

\* the UPDATE made only when the status read is active
CallValidateAccessKeyUpdatesOnlyActive(accessKeyID) ==
    /\ input' = [fn |-> "ValidateAccessKey", accessKeyID |-> accessKeyID]
    /\ \E failAt \in {"none", "select", "update"} :
          LET returns(ok, err, failed) ==
                  output' = [done |-> TRUE, value |-> Returned(ok, err),
                             failed |-> failed, before |-> access_keys]
          IN  IF DB = "nil"
              THEN returns(FALSE, TRUE, "handle") /\ UNCHANGED access_keys
              ELSE IF failAt = "select"
              THEN returns(FALSE, TRUE, "select") /\ UNCHANGED access_keys
              ELSE IF accessKeyID \notin DOMAIN access_keys
              THEN returns(FALSE, FALSE, "none") /\ UNCHANGED access_keys
              ELSE IF access_keys[accessKeyID].status # "active"
              THEN returns(FALSE, FALSE, "none") /\ UNCHANGED access_keys
              ELSE IF failAt = "update"
              THEN returns(FALSE, TRUE, "update") /\ UNCHANGED access_keys
              ELSE /\ returns(TRUE, FALSE, "none")
                   /\ access_keys' = [access_keys EXCEPT ![accessKeyID].last_used_at = Now]
    /\ UNCHANGED <<DB, roles, access_key_roles, revoked, gateVars>>

\* ValidateAccessKey; failAt: the statement that ends in an error other than
\* ErrNoRows; output.failed: where the call met an error of the store
CallValidateAccessKey(accessKeyID) ==
    /\ input' = [fn |-> "ValidateAccessKey", accessKeyID |-> accessKeyID]
    /\ \E failAt \in {"none", "select", "update"} :
          LET returns(ok, err, failed) ==
                  output' = [done |-> TRUE, value |-> Returned(ok, err),
                             failed |-> failed, before |-> access_keys]
          IN  IF DB = "nil"
              THEN returns(FALSE, TRUE, "handle") /\ UNCHANGED access_keys
              ELSE IF failAt = "select"
              THEN returns(FALSE, TRUE, "select") /\ UNCHANGED access_keys
              ELSE IF accessKeyID \notin DOMAIN access_keys
              THEN returns(FALSE, FALSE, "none") /\ UNCHANGED access_keys
              ELSE IF failAt = "update"
              THEN returns(FALSE, TRUE, "update") /\ UNCHANGED access_keys
              ELSE /\ returns(access_keys[accessKeyID].status = "active", FALSE, "none")
                   /\ access_keys' = [access_keys EXCEPT ![accessKeyID].last_used_at = Now]
    /\ UNCHANGED <<DB, roles, access_key_roles, revoked, gateVars>>

\* GetAccessKeyPermissions(accessKeyID) on the store as it stands
CallGetAccessKeyPermissionsOf(accessKeyID) ==
    /\ input' = [fn |-> "GetAccessKeyPermissions", accessKeyID |-> accessKeyID]
    /\ \E failAt \in {"none", "permissions", "roles"} :
       \E ret \in GetAccessKeyPermissions(accessKeyID, failAt) :
          output' = [done |-> TRUE, value |-> ret, failAt |-> failAt]
    /\ UNCHANGED <<storeVars, gateVars>>

StoreNext ==
    \/ InitDB
    \/ \E permissions \in CreatePayloads : CallCreateAccessKey(7, permissions)
    \/ \E accessKeyID \in KeyIDs, roleID \in RoleIDs :
          CallAssignRoleToAccessKey(accessKeyID, roleID)
    \/ \E accessKeyID \in KeyIDs, roleID \in RoleIDs :
          RemoveAssignment(accessKeyID, roleID)
    \/ \E accessKeyID \in KeyIDs : CallValidateAccessKey(accessKeyID)
    \/ \E accessKeyID \in KeyIDs : CallGetAccessKeyPermissionsOf(accessKeyID)

SpecStore == StoreInit /\ [][StoreNext]_vars

(***************************************************************************)
(* One signed request presented to VerifyRequestSignature again and again  *)
(* while the clock advances and the credential's status changes.           *)
(* input holds the request, when it was signed and the clock; output the   *)
(* result of the last presentation and how many there were.                *)
(***************************************************************************)
MaxPresentations == 3   \* presentations of the same request
MaxTicks == 2           \* advances of the clock after the signing

\* one advance of the clock, in seconds
TickSeconds == 86400

ReplayInit ==
    /\ GateIdle
    /\ \E req \in {q \in SignRequests : q.Header = NoHeader},
          secret \in {"S1", "S2"}, content \in {"", "body"}, signedAt \in {1, Now} :
          input = [fn |-> "VerifyRequestSignature",
                   req |-> SignRequest(req, "K1", secret, content, signedAt),
                   content |-> content, accessKeySecret |-> secret,
                   signedAt |-> signedAt, now |-> signedAt]
    /\ output = [done |-> FALSE, value |-> Returned(FALSE, FALSE),
                 storeFails |-> FALSE, presented |-> 0]
    /\ DB = "open"
    /\ access_keys = [k \in {"K1"} |-> KeyRow("S1", "active", JsonArray(<< >>))]
    /\ roles = << >>
    /\ access_key_roles = << >>
    /\ revoked = {}

\* time passes
Tick ==
    /\ input.now < input.signedAt + MaxTicks * TickSeconds
    /\ input' = [input EXCEPT !.now = input.now + TickSeconds]
    /\ UNCHANGED <<output, storeVars, gateVars>>

\* the same call refusing a timestamp that is not the current second
PresentWithFreshnessWindow ==
    /\ output.presented < MaxPresentations
    /\ \E storeFails \in BOOLEAN :
          output' = [done |-> TRUE,
                     value |-> IF input.req.Header.Timestamp # FormatInt(input.now)
                               THEN Returned(FALSE, FALSE)
                               ELSE VerifyRequestSignature(input.req, input.content,
                                                           storeFails),
                     storeFails |-> storeFails,
                     presented |-> output.presented + 1]
    /\ UNCHANGED <<input, storeVars, gateVars>>

\* VerifyRequestSignature(req, content) called on the request once more
Present ==
    /\ output.presented < MaxPresentations
    /\ \E storeFails \in BOOLEAN :
          output' = [done |-> TRUE,
                     value |-> VerifyRequestSignature(input.req, input.content,
                                                      storeFails),
                     storeFails |-> storeFails,
                     presented |-> output.presented + 1]
    /\ UNCHANGED <<input, storeVars, gateVars>>

ReplayNext ==
    \/ Tick
    \/ Present
    \/ \E status \in Statuses : SetStatus("K1", status)

SpecReplay == ReplayInit /\ [][ReplayNext]_vars

(***************************************************************************)
(* Policy evaluation: what it means for a rule to match, stated from the   *)
(* rule's fields and not from the loop of hasPermission                    *)
(***************************************************************************)
EqualFold(a, b) == ToLower(a) = ToLower(b)

RuleMatches(rule, method, path) ==
    /\ ToLower(rule.Effect) \in {"allow", "deny"}
    /\ \E i \in 1..Len(rule.Actions) :
           rule.Actions[i] = "*" \/ EqualFold(rule.Actions[i], method)
    /\ \E i \in 1..Len(rule.Resources) : matchPathPattern(rule.Resources[i], path)

AllowMatches(rule, method, path) ==
    RuleMatches(rule, method, path) /\ ToLower(rule.Effect) = "allow"

DenyMatches(rule, method, path) ==
    RuleMatches(rule, method, path) /\ ToLower(rule.Effect) = "deny"

SomeDenyMatches(perms, method, path) ==
    \E i \in 1..Len(perms) : DenyMatches(perms[i], method, path)

SomeAllowMatches(perms, method, path) ==
    \E i \in 1..Len(perms) : AllowMatches(perms[i], method, path)

Reorderings(s) ==
    { [i \in 1..Len(s) |-> s[f[i]]] :
        f \in {g \in [1..Len(s) -> 1..Len(s)] :
                  \A i, j \in 1..Len(s) : g[i] = g[j] => i = j} }

Evaluated == input.fn = "hasPermission" /\ output.done

\* C6: deny always wins. When the permission list holds at least one deny
\* rule that matches (method, path), hasPermission returned false, and it
\* returns false for every reordering of the list, whatever allow rules match.
C6_DenyAlwaysWins ==
    (Evaluated /\ SomeDenyMatches(input.perms, input.method, input.path)) =>
        /\ output.value = FALSE
        /\ \A p \in Reorderings(input.perms) :
               hasPermission(p, input.method, input.path) = FALSE

\* a matching allow rule stands before and after a matching deny rule
C6_Witness ==
    /\ Evaluated
    /\ output.value = FALSE
    /\ \E i, j, k \in 1..Len(input.perms) :
          /\ i < j /\ j < k
          /\ AllowMatches(input.perms[i], input.method, input.path)
          /\ DenyMatches(input.perms[j], input.method, input.path)
          /\ AllowMatches(input.perms[k], input.method, input.path)

\* C7: hasPermission returns true exactly when at least one allow rule matches
\* and no deny rule matches; rules of any other effect are ignored and the
\* empty list yields false.
C7_AllowIffAllowAndNoDeny ==
    Evaluated =>
        output.value = ( /\ SomeAllowMatches(input.perms, input.method, input.path)
                         /\ ~SomeDenyMatches(input.perms, input.method, input.path) )

\* granted through a rule whose effect and action differ in case from the
\* canonical spelling, next to an ignored rule of another effect
C7_Witness ==
    /\ Evaluated
    /\ output.value = TRUE
    /\ \E i, j \in 1..Len(input.perms) :
          /\ input.perms[i].Effect = "Allow"
          /\ AllowMatches(input.perms[i], input.method, input.path)
          /\ input.perms[j].Effect = "audit"
    /\ input.method = "GET"

(***************************************************************************)
(* Path patterns                                                           *)
(***************************************************************************)
IsPrefixPattern(pattern) == HasSuffix(pattern, "/*")

\* path is P, then "/", then at least one more character
LiesUnder(path, P) == HasPrefix(path, P \o "/") /\ Len(path) > Len(P) + 1

\* path is P followed directly by characters that are not a new segment
ContinuesLastSegment(path, P) ==
    /\ Len(P) > 0
    /\ HasPrefix(path, P)
    /\ Len(path) > Len(P)
    /\ CharAt(path, Len(P) + 1) # "/"

Matched == input.fn = "matchPathPattern" /\ output.done

\* C8: a pattern P/* matches the paths under P and does not match a path that
\* only continues the last segment of P; any other pattern matches only the
\* identical path.
C8_PrefixPatternMatchesSegments ==
    Matched =>
        LET P == TrimSuffix(input.pattern, "/*")
        IN  IF IsPrefixPattern(input.pattern)
            THEN /\ LiesUnder(input.path, P) => output.value = TRUE
                 /\ ContinuesLastSegment(input.path, P) => output.value = FALSE
            ELSE output.value = (input.pattern = input.path)

(***************************************************************************)
(* Effective permission set                                                *)
(***************************************************************************)
Range(seq) == {seq[i] : i \in 1..Len(seq)}

AssignedRoles(accessKeyID) ==
    {role \in DOMAIN roles : RoleRowCount(accessKeyID, role) > 0}

PayloadsOf(accessKeyID) ==
    {access_keys[accessKeyID].permissions}
        \cup {roles[role].permissions : role \in AssignedRoles(accessKeyID)}

\* the direct rules and the rules of every assigned role, as a set of triples
EffectiveRules(accessKeyID) ==
    UNION {Range(Unmarshal(json).perms) : json \in PayloadsOf(accessKeyID)}

Resolved ==
    /\ input.fn = "GetAccessKeyPermissions"
    /\ output.done
    /\ DB = "open"
    /\ output.failAt = "none"

\* C9: for an existing credential whose payloads all parse, the returned slice
\* is exactly the union of the direct rules and the rules of the assigned roles,
\* each (resources, actions, effect) once.
C9_ExactDeduplicatedUnion ==
    ( /\ Resolved
      /\ input.accessKeyID \in DOMAIN access_keys
      /\ \A json \in PayloadsOf(input.accessKeyID) : ~Unmarshal(json).err )
    =>
    ( /\ ~output.value.err
      /\ Range(output.value.perms) = EffectiveRules(input.accessKeyID)
      /\ Len(output.value.perms) = Cardinality(EffectiveRules(input.accessKeyID)) )

(***************************************************************************)
(* Sign / verify round trip                                                *)
(***************************************************************************)
Verified == input.fn = "VerifyRequestSignature" /\ output.done

\* the lookup of the credential the request was signed for gave its row:
\* the credential exists, is active, and the query did not fail
SignedForActiveCredential ==
    /\ Verified
    /\ input.signed
    /\ DB = "open"
    /\ ~output.storeFails
    /\ input.accessKeyID \in DOMAIN access_keys
    /\ access_keys[input.accessKeyID].status = "active"

\* C5: for a request signed by SignRequest with the id of an active credential,
\* VerifyRequestSignature returns (true, nil) when the signing secret is the
\* stored secret, and false when it is any other secret.
C5_SignVerifyRoundTrip ==
    SignedForActiveCredential =>
        IF input.accessKeySecret = access_keys[input.accessKeyID].secret_key
        THEN output.value = Returned(TRUE, FALSE)
        ELSE output.value.ok = FALSE

\* signed with the stored secret, with a repeated query key and a body, over
\* headers the request already carried, and accepted
C5_Witness ==
    /\ SignedForActiveCredential
    /\ input.accessKeySecret = access_keys[input.accessKeyID].secret_key
    /\ output.value = Returned(TRUE, FALSE)
    /\ Len(input.req.Query) = 2
    /\ input.req.Query[1][1] = input.req.Query[2][1]
    /\ input.content # ""
    /\ input.req.Header.Timestamp = FormatInt(Now)

(***************************************************************************)
(* The request gate                                                        *)
(***************************************************************************)
CheckOrder ==
    <<"VerifyRequestSignature", "ValidateAccessKey", "GetAccessKeyPermissions",
      "hasPermission">>

\* the check let the request go on
Passed(call) ==
    CASE call.fn = "VerifyRequestSignature"  -> call.ok /\ ~call.err
      [] call.fn = "ValidateAccessKey"       -> call.ok /\ ~call.err
      [] call.fn = "GetAccessKeyPermissions" -> ~call.err
      [] call.fn = "hasPermission"           -> call.ok

\* the status the gate answers when the check does not pass
StatusOnFailure(fn) ==
    CASE fn = "VerifyRequestSignature"  -> 401
      [] fn = "ValidateAccessKey"       -> 401
      [] fn = "GetAccessKeyPermissions" -> 500
      [] fn = "hasPermission"           -> 403

\* C1: the gate runs signature verification, credential validity, permission
\* resolution and policy evaluation in this order, never runs a check after one
\* that failed, and ends in exactly one outcome: the status of the first failed
\* check (401, 401, 500, 403), or the protected handler when all four passed.
C1_GateOrderAndOutcome ==
    /\ Len(calls) <= Len(CheckOrder)
    /\ \A i \in 1..Len(calls) : calls[i].fn = CheckOrder[i]
    /\ \A i \in 1..(Len(calls) - 1) : Passed(calls[i])
    /\ response.forwarded =>
          /\ response.status = 0
          /\ Len(calls) = Len(CheckOrder)
          /\ \A i \in 1..Len(calls) : Passed(calls[i])
    /\ pc = "done" =>
          /\ Len(calls) >= 1
          /\ LET last == calls[Len(calls)]
             IN  IF Passed(last)
                 THEN Len(calls) = Len(CheckOrder) /\ response.forwarded
                 ELSE response.status = StatusOnFailure(last.fn) /\ ~response.forwarded
    /\ pc # "done" => response = NoResponse

\* a request went through all four checks and reached the protected handler
C1_Witness ==
    /\ pc = "done"
    /\ response.forwarded
    /\ Len(calls) = Len(CheckOrder)

\* the signature the request arrived with is the one the stored secret of the
\* credential it names gives for the request
PresentedSignatureIsValid ==
    /\ inbound.Header.AccessKeyID \in DOMAIN access_keys
    /\ inbound.Header.Signature =
          GenerateSignature(
              access_keys[inbound.Header.AccessKeyID].secret_key,
              GenerateStringToSign(
                  SignatureParams(inbound, inbound.Header.AccessKeyID,
                                  Headers(inbound.Header, {"Signature"}),
                                  inbound.Header.Timestamp, inbound.Body)))

Rejected401 == response.status = 401 /\ ~response.forwarded

\* C2: a request whose presented signature was not computed with the stored
\* secret of the credential id it claims is answered 401 and never reaches the
\* protected handler.
C2_WrongSecretRejected ==
    (pc = "done" /\ ~PresentedSignatureIsValid) => Rejected401

MissingTransportField ==
    \/ inbound.Header.AccessKeyID = ""
    \/ inbound.Header.Timestamp = ""
    \/ inbound.Header.Signature = ""

\* C3: a request that arrives without the credential-id, the timestamp or the
\* signature field is answered 401 and never reaches the protected handler.
C3_MissingFieldRejected ==
    (pc = "done" /\ MissingTransportField) => Rejected401

\* C4: a request whose processing began after its credential had become
\* inactive or expired, and stayed so, is answered 401 and is never authorized.
C4_InactiveCredentialRejected ==
    (pc = "done" /\ inactiveSinceStart) => Rejected401

\* C10: when the update of last_used_at fails for an existing active
\* credential, ValidateAccessKey still reports it active and the gate goes on
\* to permission resolution.
C10_LastUsedUpdateBestEffort ==
    (locals.updateFailed /\ locals.status = "active") =>
        /\ Len(calls) >= 2
        /\ calls[2] = Called("ValidateAccessKey", TRUE, FALSE)
        /\ pc = "done" => Len(calls) >= 3

\* the check ended in an error that came from the store: VerifyRequestSignature
\* errs without the store only when a transport header is missing
\* (signature.go:108-122); ValidateAccessKey and GetAccessKeyPermissions err
\* only on the handle, a query, or the data a query returned
StoreFailedIn(call) ==
    /\ call.err
    /\ call.fn = "VerifyRequestSignature" =>
          /\ r.Header.AccessKeyID # ""
          /\ r.Header.Timestamp # ""
          /\ r.Header.Signature # ""

\* C11: when the store fails during any check of a gate invocation (signature
\* verification and credential validation included) the gate answers 500,
\* never 401 or 403.
C11_StoreFailureAnswers500 ==
    (pc = "done" /\ Len(calls) >= 1 /\ StoreFailedIn(calls[Len(calls)]))
        => response.status = 500

\* C19: the request handed to the protected handler is the request that was
\* received: same method, path, query, transport headers and body.
C19_ForwardedUnmodified ==
    response.forwarded => r = inbound

(***************************************************************************)
(* VerifyRequestSignature called directly                                  *)
(***************************************************************************)
AllFieldsPresent(req) ==
    /\ req.Header.AccessKeyID # ""
    /\ req.Header.Timestamp # ""
    /\ req.Header.Signature # ""

\* the credential the verified request names, when the store holds it
NamedCredential == access_keys[input.req.Header.AccessKeyID]

UnknownOrNotActive ==
    \/ input.req.Header.AccessKeyID \notin DOMAIN access_keys
    \/ NamedCredential.status # "active"

\* C13: with the three transport fields present and the store answering,
\* VerifyRequestSignature returns (false, nil) for a credential id that is not
\* stored and for a stored credential that is not active, whatever signature
\* the request carries.
C13_UnknownOrInactiveIsFalseNotError ==
    ( /\ Verified
      /\ AllFieldsPresent(input.req)
      /\ DB = "open"
      /\ ~output.storeFails
      /\ UnknownOrNotActive )
    => output.value = Returned(FALSE, FALSE)

\* an inactive credential, the request signed with its stored secret
C13_Witness ==
    /\ Verified
    /\ input.signed
    /\ DB = "open"
    /\ ~output.storeFails
    /\ input.accessKeyID \in DOMAIN access_keys
    /\ NamedCredential.status = "inactive"
    /\ input.accessKeySecret = NamedCredential.secret_key
    /\ output.value = Returned(FALSE, FALSE)

\* C14: a request without the credential-id, the timestamp or the signature
\* field makes VerifyRequestSignature return an error without having sent any
\* query to the store.
C14_MalformedRejectedBeforeStore ==
    (Verified /\ ~AllFieldsPresent(input.req))
    => /\ output.value = Returned(FALSE, TRUE)
       /\ output.queries = << >>

\* only the signature is missing, the credential is stored and active, and the
\* store would have answered
C14_Witness ==
    /\ Verified
    /\ input.req.Header.AccessKeyID \in DOMAIN access_keys
    /\ NamedCredential.status = "active"
    /\ input.req.Header.Timestamp # ""
    /\ input.req.Header.Signature = ""
    /\ DB = "open"
    /\ ~output.storeFails
    /\ output.value = Returned(FALSE, TRUE)
    /\ output.queries = << >>

(***************************************************************************)
(* GenerateStringToSign called directly                                    *)
(***************************************************************************)
Canonicalized == input.fn = "GenerateStringToSign" /\ output.done

\* the two arguments agree on method, path, query mapping, timestamp and body
SameSignedAttributes(a, b) ==
    /\ a.Method = b.Method
    /\ a.Path = b.Path
    /\ \A k \in {"a", "b", "B"} :
          \A v \in {"1", "2"} :
             (\E i \in 1..Len(a.inserted) :
                 /\ a.inserted[i] = <<k, v>>
                 /\ \A j \in (i + 1)..Len(a.inserted) : a.inserted[j][1] # k)
             <=>
             (\E i \in 1..Len(b.inserted) :
                 /\ b.inserted[i] = <<k, v>>
                 /\ \A j \in (i + 1)..Len(b.inserted) : b.inserted[j][1] # k)
    /\ a.Timestamp = b.Timestamp
    /\ a.Content = b.Content

\* C20: two SignatureParams values that agree on method, path, the query
\* key/value pairs, timestamp and body give the same canonical string, whatever
\* the order the query parameters were inserted in and whatever Headers and
\* AccessKeyID hold.
C20_CanonicalStringDependsOnSignedAttributes ==
    (Canonicalized /\ SameSignedAttributes(input.a, input.b))
    => output.value[1] = output.value[2]

\* {a:1, b:2} against {b:2, a:1}, with different Headers and AccessKeyID
C20_Witness ==
    /\ Canonicalized
    /\ input.a.inserted = << <<"a", "1">>, <<"b", "2">> >>
    /\ input.b.inserted = << <<"b", "2">>, <<"a", "1">> >>
    /\ input.a.Headers # input.b.Headers
    /\ input.a.AccessKeyID # input.b.AccessKeyID
    /\ SameSignedAttributes(input.a, input.b)
    /\ output.value[1] = output.value[2]
    /\ output.value[1] = "GET\napi/v1/users/42\na=1&b=2\n" \o input.a.Timestamp \o "\n"
                            \o (IF input.a.Content = "" THEN "" ELSE "sha256[body]")

(***************************************************************************)
(* Permission resolution on a missing record or a payload that does not    *)
(* decode into a list of rules                                             *)
(***************************************************************************)
\* the column holds something other than a JSON array or null
Unparsable(json) == json.kind \notin {"array", "null"}

MissingOrUnparsable(accessKeyID) ==
    \/ accessKeyID \notin DOMAIN access_keys
    \/ Unparsable(access_keys[accessKeyID].permissions)
    \/ \E role \in AssignedRoles(accessKeyID) : Unparsable(roles[role].permissions)

Validated == input.fn = "ValidateAccessKey" /\ output.done

\* the table as the call found it, with last_used_at of one row set to now
Refreshed(table, accessKeyID) ==
    [table EXCEPT ![accessKeyID].last_used_at = Now]

\* C15: when the store answers, ValidateAccessKey returns (false, nil) for an
\* id that is not stored and writes nothing; for a stored id it returns
\* (true, nil) exactly when the status is active, and it has set last_used_at
\* of that row, and nothing else, whatever the status.
C15_ValidateReportsActiveAndRefreshes ==
    (Validated /\ output.failed = "none")
    => IF input.accessKeyID \notin DOMAIN output.before
       THEN /\ output.value = Returned(FALSE, FALSE)
            /\ access_keys = output.before
       ELSE /\ output.value =
                  Returned(output.before[input.accessKeyID].status = "active", FALSE)
            /\ access_keys = Refreshed(output.before, input.accessKeyID)

\* an expired credential never used before: reported not active, and refreshed
C15_Witness ==
    /\ Validated
    /\ output.failed = "none"
    /\ input.accessKeyID \in DOMAIN output.before
    /\ output.before[input.accessKeyID].status = "expired"
    /\ output.before[input.accessKeyID].last_used_at = 0
    /\ output.value = Returned(FALSE, FALSE)
    /\ access_keys[input.accessKeyID].last_used_at = Now

Assigned == input.fn = "AssignRoleToAccessKey" /\ output.done

NotFoundErrors == {"access key not found", "role not found"}

\* C16: access_key_roles holds a pair at most once and only for a stored
\* credential and a stored role; AssignRoleToAccessKey answers a missing
\* credential or role with a not-found error; and a call that returns an error,
\* the repeated assignment of an assigned role included, leaves the relation
\* as it found it.
C16_AssignmentsUniqueAndChecked ==
    /\ \A pair \in DOMAIN access_key_roles :
          /\ access_key_roles[pair] <= 1
          /\ access_key_roles[pair] = 1 =>
                pair[1] \in DOMAIN access_keys /\ pair[2] \in DOMAIN roles
    /\ Assigned =>
          /\ ( /\ output.value \notin {"database not initialized", "store error"}
               /\ \/ input.accessKeyID \notin DOMAIN access_keys
                  \/ input.roleID \notin DOMAIN roles )
             => output.value \in NotFoundErrors
          /\ ( /\ <<input.accessKeyID, input.roleID>> \in DOMAIN output.before
               /\ output.before[<<input.accessKeyID, input.roleID>>] > 0 )
             => output.value # ""
          /\ output.value # "" => access_key_roles = output.before
          /\ output.value = "" =>
                /\ <<input.accessKeyID, input.roleID>> \in DOMAIN access_key_roles
                /\ access_key_roles[<<input.accessKeyID, input.roleID>>] = 1

\* the role was assigned, and assigning it again is refused and changes nothing
C16_Witness ==
    /\ Assigned
    /\ <<input.accessKeyID, input.roleID>> \in DOMAIN output.before
    /\ output.before[<<input.accessKeyID, input.roleID>>] = 1
    /\ output.value = "duplicate entry"
    /\ access_key_roles = output.before

Created == input.fn = "CreateAccessKey" /\ output.done

\* the rules a permissions argument states
GivenRules(permissions) == Range(permissions.items)

\* C17: a successful CreateAccessKey has stored, under an id no stored
\* credential had, the returned secret, status active and the permissions
\* given, and GetAccessKeyPermissions of that id returns the rules given, also
\* when they were given as one rule object; a failed one has stored nothing.
C17_CreatedCredentialResolves ==
    Created =>
        IF output.value.err
        THEN access_keys = output.before
        ELSE LET id == output.value.id
             IN  /\ id \notin DOMAIN output.before
                 /\ id \in DOMAIN access_keys
                 /\ access_keys[id] =
                       KeyRow(output.value.secret, "active", input.permissions)
                 /\ \A k \in DOMAIN output.before : access_keys[k] = output.before[k]
                 /\ \A ret \in GetAccessKeyPermissions(id, "none") :
                       /\ ~ret.err
                       /\ Range(ret.perms) = GivenRules(input.permissions)

Resolution == input.fn = "GetAccessKeyPermissions" /\ output.done /\ ~output.value.err

\* the rules the credential holds directly or through a role assigned to it now
RemainingRules(accessKeyID) ==
    Range(access_keys[accessKeyID].permissions.items)
        \cup UNION { Range(roles[pair[2]].permissions.items) :
                        pair \in {p \in DOMAIN access_key_roles :
                                    p[1] = accessKeyID /\ access_key_roles[p] > 0} }

RevokedRoles(accessKeyID) == {pair[2] : pair \in {p \in revoked : p[1] = accessKeyID}}

\* C18: a call of GetAccessKeyPermissions made after a role's assignment was
\* removed returns none of that role's rules (unless the credential still holds
\* the rule directly or through another role), and a path nothing else grants
\* evaluates to false.
C18_RevocationTakesEffect ==
    Resolution =>
        \A role \in RevokedRoles(input.accessKeyID) :
            \A rule \in Range(roles[role].permissions.items) :
                rule \notin RemainingRules(input.accessKeyID) =>
                    /\ rule \notin Range(output.value.perms)
                    /\ \A path \in EvalPaths \cup {"api/v1/products/read"} :
                          (\A other \in RemainingRules(input.accessKeyID) :
                              ~AllowMatches(other, "GET", path))
                          => ~hasPermission(output.value.perms, "GET", path)

\* the created credential keeps its direct rule and has lost the role that
\* granted api/v1/products/read
C18_Witness ==
    /\ Resolution
    /\ input.accessKeyID = "K2"
    /\ RevokedRoles("K2") = {1}
    /\ output.value.perms = <<UsersAll>>
    /\ hasPermission(output.value.perms, "GET", "api/v1/users/42")
    /\ ~hasPermission(output.value.perms, "GET", "api/v1/products/read")

(***************************************************************************)
(* Deduplication keeps different rules apart                               *)
(***************************************************************************)
AllPayloadsParse(accessKeyID) ==
    /\ accessKeyID \in DOMAIN access_keys
    /\ \A json \in PayloadsOf(accessKeyID) : ~Unparsable(json)

\* C22: two rules of the union that differ in resources, actions or effect are
\* never collapsed into one entry: both are in the slice that
\* GetAccessKeyPermissions returns.
C22_DifferentRulesBothRemain ==
    (Resolved /\ AllPayloadsParse(input.accessKeyID))
    => \A rule, other \in EffectiveRules(input.accessKeyID) :
          rule # other => {rule, other} \subseteq Range(output.value.perms)

(***************************************************************************)
(* Replay                                                                  *)
(***************************************************************************)
\* the step is a presentation of the request to VerifyRequestSignature
Presentation == output'.presented = output.presented + 1

\* the request was signed with the secret the store holds for K1, K1 is
\* active, and the store answers the query of this presentation
ValidlySignedAndAnswered ==
    /\ DB = "open"
    /\ ~output'.storeFails
    /\ access_keys["K1"].status = "active"
    /\ access_keys["K1"].secret_key = input.accessKeySecret

\* C21: every presentation of a validly signed request of an active credential
\* is accepted, however many came before and however long after the signing,
\* and no presentation changes the store.
C21_ReplayAcceptedStoreUntouched ==
    [][ Presentation =>
           /\ UNCHANGED storeVars
           /\ ValidlySignedAndAnswered => output'.value = Returned(TRUE, FALSE) ]_vars

\* the third presentation, two days after the signing, accepted
C21_Witness ==
    /\ output.presented = MaxPresentations
    /\ output.presented >= 2
    /\ input.now > input.signedAt
    /\ input.req.Header.Timestamp = FormatInt(input.signedAt)
    /\ output.value = Returned(TRUE, FALSE)

(***************************************************************************)
(* A signature carried over to another request                             *)
(***************************************************************************)
\* the values a query string gives for a key, in their order
ValuesOf(query, key) ==
    LET Pick[i \in 0..Len(query)] ==
            IF i = 0 THEN << >>
            ELSE IF query[i][1] = key THEN Append(Pick[i - 1], query[i][2])
            ELSE Pick[i - 1]
    IN  Pick[Len(query)]

KeysOf(query) == {query[i][1] : i \in 1..Len(query)}

SameQueryString(q1, q2) ==
    /\ KeysOf(q1) = KeysOf(q2)
    /\ \A key \in KeysOf(q1) : ValuesOf(q1, key) = ValuesOf(q2, key)

DifferentRequests ==
    \/ input.signed.Method # input.other.Method
    \/ input.signed.Path # input.other.Path
    \/ ~SameQueryString(input.signed.Query, input.other.Query)
    \/ input.timestampOther # FormatInt(Now)
    \/ input.contentSigned # input.contentOther

\* C23: two requests that differ in method, path, query string (a key, a
\* value, any value of a repeated key), timestamp or body have different
\* canonical strings, and the signature of one is not accepted for the other.
C23_CanonicalStringDeterminesRequest ==
    (input.fn = "SignOneVerifyOther" /\ output.done /\ DifferentRequests)
    => /\ output.strings[1] # output.strings[2]
       /\ output.value.ok = FALSE

(***************************************************************************)
(* The gate while the store is being updated.  signature.go:241-285 reads  *)
(* the store in separate statements (accesskey.go:279, 167, 199, 212), not *)
(* in a transaction, so an update may land between any two of them.  One   *)
(* request, input.req, is handled; output.justified records whether some   *)
(* state of the store since the request arrived had its credential active  *)
(* with an effective rule set that allows its method and path.             *)
(***************************************************************************)
RaceRequests ==
    {SignRequest(req, "14789", "wen", req.Body, Now) : req \in UnsignedRequests}

\* the store, as it is now, allows input.req: the credential is active, every
\* payload parses, some allow rule matches and no deny rule matches
Justified ==
    LET accessKeyID == input.req.Header.AccessKeyID
    IN  /\ accessKeyID \in DOMAIN access_keys
        /\ access_keys[accessKeyID].status = "active"
        /\ \A json \in PayloadsOf(accessKeyID) : ~Unmarshal(json).err
        /\ \E rule \in EffectiveRules(accessKeyID) :
              AllowMatches(rule, input.req.Method, input.req.Path)
        /\ ~\E rule \in EffectiveRules(accessKeyID) :
              DenyMatches(rule, input.req.Method, input.req.Path)

\* the record of the store's states between the request's arrival and its answer
Observed ==
    output' = [output EXCEPT !.justified =
                  IF pc = "idle" THEN Justified'
                  ELSE IF pc = "done" THEN @
                  ELSE @ \/ Justified']

RaceInit ==
    /\ GateIdle
    /\ input \in [fn : {"CreateMiddleware"}, req : RaceRequests]
    /\ DB = "open"
    /\ access_keys \in
          [{"14789"} ->
              {KeyRow("wen", status, p) :
                  status \in Statuses,
                  p \in {JsonArray(<<GateRules.allowUsers>>), JsonArray(<< >>)}}]
    /\ roles = [role \in {1} |-> [permissions |-> JsonArray(<<GateRules.denyUsers>>)]]
    /\ access_key_roles \in [{<<"14789", 1>>} -> {0, 1}]
    /\ revoked = {}
    /\ output = [done |-> FALSE, value |-> FALSE, justified |-> Justified]

\* a status change, committed while the gate may be between two reads
UpdateStatus(accessKeyID, status) ==
    /\ access_keys[accessKeyID].status # status
    /\ access_keys' = [access_keys EXCEPT ![accessKeyID].status = status]
    /\ inactiveSinceStart' =
          IF accessKeyID = inbound.Header.AccessKeyID /\ status = "active"
          THEN FALSE ELSE inactiveSinceStart
    /\ UNCHANGED <<DB, roles, access_key_roles, revoked, input,
                   pc, inbound, r, locals, response, calls>>
    /\ Observed

\* a change of the credential's direct permissions
UpdatePermissions(accessKeyID, permissions) ==
    /\ access_keys[accessKeyID].permissions # permissions
    /\ access_keys' = [access_keys EXCEPT ![accessKeyID].permissions = permissions]
    /\ UNCHANGED <<DB, roles, access_key_roles, revoked, input, gateVars>>
    /\ Observed

\* accesskey.go: AssignRoleToAccessKey, called by an administrator
AssignRole(accessKeyID, roleID) ==
    LET inserted == InsertAssignment(accessKeyID, roleID)
    IN  /\ accessKeyID \in DOMAIN access_keys
        /\ roleID \in DOMAIN roles
        /\ ~inserted.err
        /\ access_key_roles' = inserted.table
        /\ revoked' = revoked \ {<<accessKeyID, roleID>>}
        /\ UNCHANGED <<DB, access_keys, roles, input, gateVars>>
        /\ Observed

\* the assignment row is deleted
RemoveRole(accessKeyID, roleID) ==
    /\ RoleRowCount(accessKeyID, roleID) > 0
    /\ access_key_roles' =
          [p \in DOMAIN access_key_roles \ {<<accessKeyID, roleID>>} |->
              access_key_roles[p]]
    /\ revoked' = revoked \cup {<<accessKeyID, roleID>>}
    /\ UNCHANGED <<DB, access_keys, roles, input, gateVars>>
    /\ Observed

RaceNext ==
    \/ \E status \in Statuses : UpdateStatus("14789", status)
    \/ \E p \in {JsonArray(<<GateRules.allowUsers>>), JsonArray(<< >>)} :
          UpdatePermissions("14789", p)
    \/ AssignRole("14789", 1)
    \/ RemoveRole("14789", 1)
    \/ GateReceive(input.req)
    \/ GateVerifySignature
    \/ GateSelectStatus
    \/ GateUpdateLastUsed
    \/ GateSelectPermissions
    \/ GateResolveAndEvaluate

SpecRace == RaceInit /\ [][RaceNext]_vars

\* C24: whenever the gate forwards a request while the store is being updated,
\* some state of the store between the request's arrival and its
\* authorization had the credential active with an effective rule set that
\* allows the request's method and path.
C24_AuthorizedJustifiedBySingleState ==
    (input.fn = "CreateMiddleware" /\ response.forwarded) => output.justified

====
